---- MODULE Spec2Model ----
(***************************************************************************)
(* Model of sqliterg's request core (src/src/logic.rs): the HTTP handler   *)
(* that takes the per-database mutex, and process(), which opens one       *)
(* transaction, runs the items of the request in order under the noFail    *)
(* policy and commits or rolls back.                                       *)
(*                                                                         *)
(* The SQL engine (SQLite through rusqlite) is an external collaborator.   *)
(* It is modelled on one table,                                            *)
(*     create table t (v int not null unique)                              *)
(* and the five SQL texts INS, DEL, SEL, COMMIT and BAD below.             *)
(***************************************************************************)
EXTENDS Integers, Sequences, FiniteSets, TLC

\* ------------------------------------------------------------------ bounds
MaxItems == 2      \* longest "transaction" array of a request
MaxBatch == 2      \* longest "valuesBatch" array of an item
MaxVal == 2        \* parameter values are 1..MaxVal

Vals == 1..MaxVal
Handlers == {"h1", "h2"}     \* concurrent invocations of handler()
DBs == {"d1", "d2"}          \* configured databases, one mutex + connection each

\* ------------------------------------------------------------------ Option<T>
None == <<>>
Some(x) == <<x>>
is_some(o) == Len(o) = 1
is_none(o) == Len(o) = 0
unwrap(o) == o[1]

\* ------------------------------------------------------------------ SQL texts
INS == "insert into t values(:v)"
DEL == "delete from t"
SEL == "select v from t order by v"
COMMIT == "commit"
BAD == "this is not sql"

\* ------------------------------------------------------------------ JSON values
\* the values of the members of a parameter object: the scalars null, an
\* integer number and a string, and one value that is no scalar, the array
\* [1], kept as its JSON text
JNull == [kind |-> "null", n |-> 0, s |-> ""]
JNum(i) == [kind |-> "number", n |-> i, s |-> ""]
JStr(s) == [kind |-> "string", n |-> 0, s |-> s]
JNested == [kind |-> "array", n |-> 0, s |-> "[1]"]
\* a JSON object with the single member key: val, and a JSON value that is
\* no object (an array)
JObject(k, s) == [kind |-> "object", key |-> k, val |-> s]
JArray == [kind |-> "array", key |-> "", val |-> JNull]

\* ------------------------------------------------------------------ engine values
Null == [type |-> "Null", i |-> 0, s |-> ""]
Integer(i) == [type |-> "Integer", i |-> i, s |-> ""]
Text(s) == [type |-> "Text", i |-> 0, s |-> s]

\* serde_json::to_string: null and a number are written as they are, a
\* string between double quotes, an array as its JSON text
to_string(j) ==
    CASE j.kind = "null" -> "null"
      [] j.kind = "number" -> ToString(j.n)
      [] j.kind = "string" -> "\"" \o j.s \o "\""
      [] OTHER -> j.s

\* The parameter value is the boxed serde_json::Value itself (l.48), bound
\* through rusqlite's impl ToSql for serde_json::Value.  What that impl does
\* depends on the rusqlite the build links, which the source does not fix:
\* "typed": null is NULL, an integer number is INTEGER, every other value is
\*          the TEXT of its JSON serialisation;
\* "text":  every value, null and numbers included, is the TEXT of its JSON
\*          serialisation.
ToSqlTyped(j) ==
    CASE j.kind = "null" -> Null
      [] j.kind = "number" -> Integer(j.n)
      [] OTHER -> Text(to_string(j))
ToSqlText(j) == Text(to_string(j))
Builds == {"typed", "text"}

VARIABLE build      \* the impl ToSql of the build, fixed for a whole behaviour

ToSql(j) == IF build = "typed" THEN ToSqlTyped(j) ELSE ToSqlText(j)

val_db2val_json(val) ==
    CASE val.type = "Null" -> JNull
      [] val.type = "Integer" -> JNum(val.i)
      [] val.type = "Text" -> JStr(val.s)

\* ------------------------------------------------------------------ configuration
\* d1: no auth, raw SQL allowed.  d2: auth required, stored statements only.
dbconf == [d \in DBs |->
    IF d = "d1" THEN [auth |-> None, use_only_stored_statements |-> FALSE]
    ELSE [auth |-> Some("INLINE"), use_only_stored_statements |-> TRUE]]

stored_statements == [name \in {"addv"} |-> INS]

\* crate::auth::process_auth: the credential verifier
process_auth(credentials) == credentials = Some("good")

\* crate::commons::check_stored_stmt: Ok(sql) or Err(msg)
check_stored_stmt(text, stored, only_stored) ==
    IF text \in DOMAIN stored THEN [ok |-> TRUE, sql |-> stored[text], msg |-> ""]
    ELSE IF only_stored
         THEN [ok |-> FALSE, sql |-> "", msg |-> "ResolutionError"]
         ELSE [ok |-> TRUE, sql |-> text, msg |-> ""]

\* crate::commons::prepend_colon
prepend_colon(k) == ":" \o k

calc_named_params(params) == << <<prepend_colon(params.key), ToSql(params.val)>> >>

\* ------------------------------------------------------------------ the engine
\* What is behind a connection: `rows`, the table as the set of the values
\* in column v (not null, unique), and `changes`, the connection's counter
\* of the rows changed by the last INSERT, UPDATE or DELETE it completed
\* (sqlite3_changes).  `ended` is for a connection inside the transaction
\* of process: a statement of the request ended that transaction, the
\* connection is back in autocommit mode and what it runs is committed at
\* once.
Conn(rows, changes) == [rows |-> rows, changes |-> changes, ended |-> FALSE]
\* the connection `conn` once nothing of a transaction is left on it
Durable(conn) == [conn EXCEPT !.ended = FALSE]

\* The column has integer affinity: a TEXT that is an integer numeral is
\* stored as that INTEGER, any other TEXT as TEXT.
Affinity(v) ==
    IF v.type = "Text" /\ \E k \in 0..MaxVal : ToString(k) = v.s
    THEN Integer(CHOOSE k \in 0..MaxVal : ToString(k) = v.s)
    ELSE v

\* The texts of the model, in the engine's (bytewise) order
TextOrder == <<"\"a\"", "[1]", "null">>
TextRank(s) == CHOOSE j \in 1..Len(TextOrder) : TextOrder[j] = s
\* "order by v": INTEGER sorts before TEXT
Before(x, y) ==
    IF x.type = y.type
    THEN IF x.type = "Integer" THEN x.i <= y.i ELSE TextRank(x.s) <= TextRank(y.s)
    ELSE x.type = "Integer"
RECURSIVE SortedSeq(_)
SortedSeq(S) ==
    IF S = {} THEN <<>>
    ELSE LET m == CHOOSE x \in S : \A y \in S : Before(x, y)
         IN <<m>> \o SortedSeq(S \ {m})

\* sqlite3_prepare: the texts the engine compiles
CanPrepare(sql) == sql \in {INS, DEL, SEL, COMMIT}
ParamNames(sql) == IF sql = INS THEN {":v"} ELSE {}
ColumnNames(sql) == IF sql = SEL THEN <<"v">> ELSE <<>>

\* rusqlite binds a slice of (name, value) by name: a name the statement does
\* not have is Error::InvalidParameterName
BindNamed(sql, params) == \A j \in 1..Len(params) : params[j][1] \in ParamNames(sql)
\* rusqlite binds the positional [] only to a statement without parameters
BindNone(sql) == ParamNames(sql) = {}
\* the value bound to :v (an unbound parameter is NULL)
BoundValue(params) ==
    IF \E j \in 1..Len(params) : params[j][1] = ":v"
    THEN params[CHOOSE j \in 1..Len(params) : params[j][1] = ":v"][2]
    ELSE Null

\* One run of a prepared statement to completion on the connection `conn`,
\* v the value bound to :v.  A failed statement changes no row
\* (statement-level atomicity) and leaves the counter at 0; a SELECT does
\* not touch the counter.  `out` is the rows the statement returned.
\* COMMIT ends the open transaction, and fails when there is none; it is no
\* INSERT, UPDATE or DELETE and leaves the counter as it is.
NoTransaction == "cannot commit - no transaction is active"
Step(conn, sql, v) ==
    CASE sql = INS ->
           IF Affinity(v).type = "Null"
           THEN [ok |-> FALSE, msg |-> "NOT NULL constraint failed: t.v",
                 conn |-> [conn EXCEPT !.changes = 0], out |-> <<>>]
           ELSE IF Affinity(v) \in conn.rows
           THEN [ok |-> FALSE, msg |-> "UNIQUE constraint failed: t.v",
                 conn |-> [conn EXCEPT !.changes = 0], out |-> <<>>]
           ELSE [ok |-> TRUE, msg |-> "",
                 conn |-> [conn EXCEPT !.rows = @ \cup {Affinity(v)}, !.changes = 1],
                 out |-> <<>>]
      [] sql = DEL ->
           [ok |-> TRUE, msg |-> "",
            conn |-> [conn EXCEPT !.rows = {}, !.changes = Cardinality(conn.rows)],
            out |-> <<>>]
      [] sql = SEL ->
           [ok |-> TRUE, msg |-> "", conn |-> conn, out |-> SortedSeq(conn.rows)]
      [] sql = COMMIT ->
           IF conn.ended
           THEN [ok |-> FALSE, msg |-> NoTransaction, conn |-> conn, out |-> <<>>]
           ELSE [ok |-> TRUE, msg |-> "", conn |-> [conn EXCEPT !.ended = TRUE],
                 out |-> <<>>]

\* ------------------------------------------------------------------ do_query, do_statement
\* The outcome of running one item on the open transaction of the
\* connection `conn`: Ok((result_set, rows_updated, rows_updated_batch)),
\* Err(msg) or a panic; `conn` is the connection afterwards.
\* `calls` is the trace of what the item asked of its collaborators, in order.
Ok(conn, rs, ru, rub) ==
    [st |-> "ok", msg |-> "", conn |-> conn, calls |-> <<>>,
     result_set |-> rs, rows_updated |-> ru, rows_updated_batch |-> rub]
Err(msg, conn) ==
    [st |-> "err", msg |-> msg, conn |-> conn, calls |-> <<>>,
     result_set |-> None, rows_updated |-> None, rows_updated_batch |-> None]
Panic(conn) ==
    [st |-> "panic", msg |-> "panic", conn |-> conn, calls |-> <<>>,
     result_set |-> None, rows_updated |-> None, rows_updated_batch |-> None]

\* a call: "resolve" (check_stored_stmt on a text), "prepare" (the engine
\* compiles a text) or "step" (the engine runs the prepared text once)
Call(op, sql) == [op |-> op, sql |-> sql]
\* the outcome `out` of what followed the calls `calls`
Called(calls, out) == [out EXCEPT !.calls = calls \o @]

\* a row as the JSON object column name -> value
RowJson(sql, value) == [c \in {ColumnNames(sql)[1]} |-> val_db2val_json(value)]

do_query(conn, sql, values) ==
    Called(<<Call("prepare", sql)>>,
    IF ~CanPrepare(sql) THEN Err("prepare", conn)                        \* l.59
    ELSE IF is_some(values) /\ unwrap(values).kind # "object"
    THEN Panic(conn)                                                     \* l.67
    ELSE IF is_some(values) /\ ~BindNamed(sql, calc_named_params(unwrap(values)))
    THEN Err("InvalidParameterName", conn)                               \* l.68
    ELSE IF is_none(values) /\ ~BindNone(sql)
    THEN Err("InvalidParameterCount", conn)                              \* l.70
    ELSE LET params == IF is_some(values)
                       THEN calc_named_params(unwrap(values)) ELSE <<>>
             s == Step(conn, sql, BoundValue(params))
         IN Called(<<Call("step", sql)>>,
            IF ~s.ok THEN Panic(s.conn)                                  \* l.73
            ELSE Ok(s.conn,
                    Some([j \in 1..Len(s.out) |-> RowJson(sql, s.out[j])]),
                    None, None)))

\* Statement::execute steps the statement once: a statement that returns a
\* row is refused with this error, one that is done is answered
\* conn.changes()
ExecuteReturnedResults == "Execute returned results - did you mean to call query?"

\* tx.execute(sql, params) with the named parameters of the object `obj`
ExecuteNamed(conn, sql, obj) ==
    Called(<<Call("prepare", sql)>>,
    IF ~CanPrepare(sql) THEN Err("prepare", conn)
    ELSE IF ~BindNamed(sql, calc_named_params(obj))
    THEN Err("InvalidParameterName", conn)
    ELSE LET s == Step(conn, sql, BoundValue(calc_named_params(obj)))
         IN Called(<<Call("step", sql)>>,
            IF ~s.ok THEN Err(s.msg, s.conn)
            ELSE IF s.out # <<>> THEN Err(ExecuteReturnedResults, s.conn)
            ELSE Ok(s.conn, None, Some(s.conn.changes), None)))

\* tx.execute(sql, [])
ExecuteNone(conn, sql) ==
    Called(<<Call("prepare", sql)>>,
    IF ~CanPrepare(sql) THEN Err("prepare", conn)
    ELSE IF ~BindNone(sql) THEN Err("InvalidParameterCount", conn)
    ELSE LET s == Step(conn, sql, Null)
         IN Called(<<Call("step", sql)>>,
            IF ~s.ok THEN Err(s.msg, s.conn)
            ELSE IF s.out # <<>> THEN Err(ExecuteReturnedResults, s.conn)
            ELSE Ok(s.conn, None, Some(s.conn.changes), None)))

\* BatchLoop as it would be if each count replaced the counts before it
RECURSIVE BatchLoopKeepsLast(_, _, _, _, _)
BatchLoopKeepsLast(conn, sql, batch, j, ret) ==
    IF j > Len(batch) THEN Ok(conn, None, None, Some(ret))
    ELSE IF batch[j].kind # "object" THEN Panic(conn)
    ELSE IF ~BindNamed(sql, calc_named_params(batch[j]))
    THEN Err("InvalidParameterName", conn)
    ELSE LET s == Step(conn, sql, BoundValue(calc_named_params(batch[j])))
         IN Called(<<Call("step", sql)>>,
            IF ~s.ok THEN Err(s.msg, s.conn)
            ELSE IF s.out # <<>> THEN Err(ExecuteReturnedResults, s.conn)
            ELSE BatchLoopKeepsLast(s.conn, sql, batch, j + 1, <<s.conn.changes>>))

\* the loop of l.108-112 from element j on, `ret` the counts so far
RECURSIVE BatchLoop(_, _, _, _, _)
BatchLoop(conn, sql, batch, j, ret) ==
    IF j > Len(batch) THEN Ok(conn, None, None, Some(ret))
    ELSE IF batch[j].kind # "object" THEN Panic(conn)                    \* l.109
    ELSE IF ~BindNamed(sql, calc_named_params(batch[j]))
    THEN Err("InvalidParameterName", conn)
    ELSE LET s == Step(conn, sql, BoundValue(calc_named_params(batch[j])))
         IN Called(<<Call("step", sql)>>,
            IF ~s.ok THEN Err(s.msg, s.conn)                             \* l.110
            ELSE IF s.out # <<>> THEN Err(ExecuteReturnedResults, s.conn)
            ELSE BatchLoop(s.conn, sql, batch, j + 1, Append(ret, s.conn.changes)))

do_statement(conn, sql, values, values_batch) ==
    IF is_some(values) /\ is_some(values_batch)
    THEN Err("at most one of values and values_batch must be provided", conn)
    ELSE IF is_none(values) /\ is_none(values_batch)
    THEN ExecuteNone(conn, sql)
    ELSE IF is_some(values)
    THEN IF unwrap(values).kind # "object" THEN Panic(conn)              \* l.101
         ELSE ExecuteNamed(conn, sql, unwrap(values))
    ELSE Called(<<Call("prepare", sql)>>,
         IF ~CanPrepare(sql) THEN Err("prepare", conn)                   \* l.106
         ELSE BatchLoop(conn, sql, unwrap(values_batch), 1, <<>>))

\* ------------------------------------------------------------------ requests
Item(q, s, v, vb, nf) ==
    [query |-> q, statement |-> s, values |-> v, values_batch |-> vb, no_fail |-> nf]

\* the parameter object {"v": k}
P(k) == JObject("v", JNum(k))

BatchAsc == [j \in 1..MaxBatch |-> P(IF j <= MaxVal THEN j ELSE MaxVal)]
BatchDup == [j \in 1..MaxBatch |-> P(1)]
BatchArr == [j \in 1..MaxBatch |-> IF j = MaxBatch THEN JArray ELSE P(j)]

\* the items requests are made of: those whose failure the noFail flag
\* decides, with either flag, and one of each other shape
Items ==
    UNION {
        {Item(None, None, None, None, nf),
         Item(None, Some(BAD), None, None, nf),
         Item(None, Some(INS), Some(P(1)), None, nf),
         Item(None, Some(INS), None, Some(BatchDup), nf),
         Item(Some(INS), None, Some(P(1)), None, nf)}
        : nf \in BOOLEAN}
    \cup {Item(None, Some(INS), Some(P(k)), None, FALSE) : k \in Vals}
    \cup {Item(Some(SEL), Some(DEL), None, None, TRUE),
          Item(None, Some(DEL), None, None, FALSE),
          Item(None, Some(INS), Some(JArray), None, TRUE),
          Item(None, Some(INS), Some(JObject("x", JNum(1))), None, TRUE),
          Item(None, Some(INS), Some(P(1)), Some(BatchAsc), TRUE),
          Item(None, Some("addv"), Some(P(1)), None, FALSE),
          Item(None, Some(INS), None, Some(BatchAsc), FALSE),
          Item(None, Some(INS), None, Some(BatchArr), FALSE),
          Item(Some(SEL), None, None, None, FALSE),
          Item(Some(SEL), None, Some(JArray), None, TRUE),
          Item(Some(BAD), None, None, None, FALSE),
          Item(None, Some(INS), None, Some(<<>>), FALSE),
          Item(Some(INS), None, Some(P(1)), Some(BatchAsc), FALSE),
          Item(None, Some(INS), Some(JObject("v", JStr("a"))), None, FALSE),
          Item(None, Some(INS), Some(JObject("v", JNested)), None, FALSE),
          Item(None, Some(INS), Some(JObject("v", JNull)), None, FALSE),
          Item(None, Some(SEL), None, None, FALSE),
          Item(None, Some(COMMIT), None, None, FALSE)}

\* credentials matter to the database that declares auth only
CredentialsFor(d) == IF is_some(dbconf[d].auth) THEN {Some("good"), Some("bad")} ELSE {None}
Request(d, c, t) == [db |-> d, credentials |-> c, transaction |-> t]
NoRequest == Request("", None, <<>>)

\* the requests of SpecConc: two handlers, each with an insert, an insert
\* followed by a panicking item, a stored insert, an insert followed by an
\* item that aborts the batch, the statement SEL, which reports the
\* connection's counter, a COMMIT, or a COMMIT followed by an item that
\* aborts the batch
ConcTransactions ==
    {<<Item(None, Some(INS), Some(P(1)), None, FALSE)>>,
     <<Item(None, Some(INS), Some(P(2)), None, FALSE),
       Item(None, Some(INS), Some(JArray), None, TRUE)>>,
     <<Item(None, Some("addv"), Some(P(2)), None, FALSE)>>,
     <<Item(None, Some(INS), Some(P(1)), None, FALSE),
       Item(None, Some(BAD), None, None, FALSE)>>,
     <<Item(None, Some(SEL), None, None, FALSE)>>,
     <<Item(None, Some(COMMIT), None, None, FALSE)>>,
     <<Item(None, Some(COMMIT), None, None, FALSE),
       Item(None, Some(BAD), None, None, FALSE)>>}
ConcRequests ==
    UNION {{Request(d, c, t) : c \in CredentialsFor(d), t \in ConcTransactions}
           : d \in DBs}

\* ------------------------------------------------------------------ responses
\* crate::req_res
ResponseItem(success, error, result_set, rows_updated, rows_updated_batch) ==
    [success |-> success, error |-> error, result_set |-> result_set,
     rows_updated |-> rows_updated, rows_updated_batch |-> rows_updated_batch]

new_err(status, code, msg) ==
    [status |-> status, success |-> FALSE, error_code |-> Some(code),
     message |-> Some(msg), results |-> None]
new_ok(rs) ==
    [status |-> 200, success |-> TRUE, error_code |-> None,
     message |-> None, results |-> Some(rs)]

\* ------------------------------------------------------------------ state
VARIABLES
    db,         \* db[d]: the connection of database d, its table as committed
    tx,         \* tx[d]: None, or Some(conn), d's connection inside its open transaction
    holder,     \* holder[d]: the handler holding d's mutex, or NoHolder
    poisoned,   \* poisoned[d]: a holder of d's mutex panicked
    pc,         \* pc[h]: where handler h is
    req,        \* req[h]: the request h serves
    idx,        \* idx[h]: the loop index of process (0-based)
    results,    \* results[h]: the local `results` of process
    failed,     \* failed[h]: the local `failed` of process, Option<(idx, msg)>
    response,   \* response[h]: what process returned
    pre,        \* pre[h]: history, the connection when h took the mutex
    events,     \* events[h]: history, what h did, in order
    engine,     \* engine[h]: history, the calls of h's items, each with its item index
    order       \* order[d]: history, the handlers that called lock() on d's mutex, in order

vars == <<db, tx, holder, poisoned, pc, req, idx, results, failed, response, pre,
          events, engine, order, build>>

NoHolder == "nobody"
Ev(e, k) == [ev |-> e, k |-> k]

\* tables a database can hold when the first request arrives
InitTables == {{}, {Integer(1)}}

Init ==
    /\ \E s \in InitTables : db = [d \in DBs |-> Conn(s, 0)]
    /\ tx = [d \in DBs |-> None]
    /\ holder = [d \in DBs |-> NoHolder]
    /\ poisoned = [d \in DBs |-> FALSE]
    /\ pc = [h \in Handlers |-> "idle"]
    /\ req = [h \in Handlers |-> NoRequest]
    /\ idx = [h \in Handlers |-> 0]
    /\ results = [h \in Handlers |-> <<>>]
    /\ failed = [h \in Handlers |-> None]
    /\ response = [h \in Handlers |-> None]
    /\ pre = [h \in Handlers |-> Conn({}, 0)]
    /\ events = [h \in Handlers |-> <<>>]
    /\ engine = [h \in Handlers |-> <<>>]
    /\ order = [d \in DBs |-> <<>>]
    /\ build \in Builds

\* ------------------------------------------------------------------ process, per item
\* item_ret as it would be if the text of a query were not resolved
item_retQueryUnresolved(conn, item, conf) ==
    IF is_some(item.query)
    THEN Called(<<Call("resolve", unwrap(item.query))>>,
                do_query(conn, unwrap(item.query), item.values))
    ELSE LET sql == check_stored_stmt(unwrap(item.statement), stored_statements,
                                      conf.use_only_stored_statements)
         IN Called(<<Call("resolve", unwrap(item.statement))>>,
            IF sql.ok THEN do_statement(conn, sql.sql, item.values, item.values_batch)
            ELSE Err(sql.msg, conn))

\* l.162-180: resolve the text, run the item
item_ret(conn, item, conf) ==
    IF is_some(item.query)
    THEN LET sql == check_stored_stmt(unwrap(item.query), stored_statements,
                                      conf.use_only_stored_statements)
         IN Called(<<Call("resolve", unwrap(item.query))>>,
            IF sql.ok THEN do_query(conn, sql.sql, item.values)
            ELSE Err(sql.msg, conn))
    ELSE LET sql == check_stored_stmt(unwrap(item.statement), stored_statements,
                                      conf.use_only_stored_statements)
         IN Called(<<Call("resolve", unwrap(item.statement))>>,
            IF sql.ok THEN do_statement(conn, sql.sql, item.values, item.values_batch)
            ELSE Err(sql.msg, conn))

\* FailedItem as it would be if a failed item carried an empty result set
FailedItemEmptySet(msg) == ResponseItem(FALSE, Some(msg), Some(<<>>), None, None)

\* l.147-153, 196-202: the ResponseItem of a failed item
FailedItem(msg) == ResponseItem(FALSE, Some(msg), None, None, None)

\* loop_body as it would be if only an item with neither text were refused
loop_bodyBothAllowed(conn, item, i, conf) ==
    IF is_none(item.query) /\ is_none(item.statement)
    THEN LET msg == "exactly one of 'query' and 'statement' must be provided"
         IN IF item.no_fail
            THEN [next |-> "continue", conn |-> conn, push |-> Some(FailedItem(msg)),
                  fail |-> None, calls |-> <<>>]
            ELSE [next |-> "break", conn |-> conn, push |-> None,
                  fail |-> Some(<<i, msg>>), calls |-> <<>>]
    ELSE LET ret == item_ret(conn, item, conf)
         IN IF ret.st = "panic"
            THEN [next |-> "panic", conn |-> ret.conn, push |-> None, fail |-> None,
                  calls |-> ret.calls]
            ELSE IF ~item.no_fail /\ ret.st = "err"
            THEN [next |-> "break", conn |-> ret.conn, push |-> None,
                  fail |-> Some(<<i, ret.msg>>), calls |-> ret.calls]
            ELSE IF ret.st = "ok"
            THEN [next |-> "continue", conn |-> ret.conn,
                  push |-> Some(ResponseItem(TRUE, None, ret.result_set,
                                             ret.rows_updated, ret.rows_updated_batch)),
                  fail |-> None, calls |-> ret.calls]
            ELSE [next |-> "continue", conn |-> ret.conn,
                  push |-> Some(FailedItem(ret.msg)), fail |-> None, calls |-> ret.calls]

\* l.145-204: one turn of the loop on item `item` at index i, the table of
\* the transaction being `conn`.  next: "continue" (push), "break" (fail)
\* or "panic".
loop_body(conn, item, i, conf) ==
    IF is_some(item.query) = is_some(item.statement)
    THEN LET msg == "exactly one of 'query' and 'statement' must be provided"
         IN IF item.no_fail
            THEN [next |-> "continue", conn |-> conn, push |-> Some(FailedItem(msg)),
                  fail |-> None, calls |-> <<>>]
            ELSE [next |-> "break", conn |-> conn, push |-> None,
                  fail |-> Some(<<i, msg>>), calls |-> <<>>]
    ELSE LET ret == item_ret(conn, item, conf)
         IN IF ret.st = "panic"
            THEN [next |-> "panic", conn |-> ret.conn, push |-> None, fail |-> None,
                  calls |-> ret.calls]
            ELSE IF ~item.no_fail /\ ret.st = "err"
            THEN [next |-> "break", conn |-> ret.conn, push |-> None,
                  fail |-> Some(<<i, ret.msg>>), calls |-> ret.calls]
            ELSE IF ret.st = "ok"
            THEN [next |-> "continue", conn |-> ret.conn,
                  push |-> Some(ResponseItem(TRUE, None, ret.result_set,
                                             ret.rows_updated, ret.rows_updated_batch)),
                  fail |-> None, calls |-> ret.calls]
            ELSE [next |-> "continue", conn |-> ret.conn,
                  push |-> Some(FailedItem(ret.msg)), fail |-> None, calls |-> ret.calls]

\* ------------------------------------------------------------------ actions
Log(h, e) == events' = [events EXCEPT ![h] = Append(@, e)]

\* l.220-237: actix hands handler() a parsed request for database r.db; the
\* Authorization header handler() parses is part of what the verifier is
\* given, r.credentials standing for both
Receive(h, r) ==
    /\ pc[h] = "idle"
    /\ req' = [req EXCEPT ![h] = r]
    /\ pc' = [pc EXCEPT ![h] = "lock"]
    /\ UNCHANGED <<db, tx, holder, poisoned, idx, results, failed, response, pre, events, engine, order, build>>

\* Lock as it would be if the mutex did not make the caller wait
LockNoWait(h) ==
    /\ pc[h] = "lock"
    /\ ~poisoned[req[h].db]
    /\ holder' = [holder EXCEPT ![req[h].db] = h]
    /\ pc' = [pc EXCEPT ![h] = "auth"]
    /\ pre' = [pre EXCEPT ![h] = db[req[h].db]]
    /\ Log(h, Ev("lock", 0))
    /\ order' = [order EXCEPT ![req[h].db] = Append(@, h)]
    /\ UNCHANGED <<db, tx, poisoned, req, idx, results, failed, response, engine, build>>

\* l.239-241: db_lock.lock().unwrap() on a mutex that is free and sound
Lock(h) ==
    /\ pc[h] = "lock"
    /\ holder[req[h].db] = NoHolder
    /\ ~poisoned[req[h].db]
    /\ holder' = [holder EXCEPT ![req[h].db] = h]
    /\ pc' = [pc EXCEPT ![h] = "auth"]
    /\ pre' = [pre EXCEPT ![h] = db[req[h].db]]
    /\ Log(h, Ev("lock", 0))
    /\ order' = [order EXCEPT ![req[h].db] = Append(@, h)]
    /\ UNCHANGED <<db, tx, poisoned, req, idx, results, failed, response, engine, build>>

\* l.240: lock() on a poisoned mutex is Err(PoisonError), unwrap() panics and
\* drops the guard the error carries
LockPoisoned(h) ==
    /\ pc[h] = "lock"
    /\ holder[req[h].db] = NoHolder
    /\ poisoned[req[h].db]
    /\ pc' = [pc EXCEPT ![h] = "dead"]
    /\ Log(h, Ev("lock_panic", 0))
    /\ order' = [order EXCEPT ![req[h].db] = Append(@, h)]
    /\ UNCHANGED <<db, tx, holder, poisoned, req, idx, results, failed, response, pre, engine, build>>

\* AuthFails as it would be with the negation of l.125 left out
AuthFailsNegationLost(h) ==
    /\ is_some(dbconf[req[h].db].auth)
    /\ process_auth(req[h].credentials)

\* l.124-131: the database declares auth and the verification fails
AuthFails(h) ==
    /\ is_some(dbconf[req[h].db].auth)
    /\ ~process_auth(req[h].credentials)

\* l.124-137: the auth gate answers 401
AuthReject(h) ==
    /\ pc[h] = "auth"
    /\ AuthFails(h)
    /\ response' = [response EXCEPT ![h] = Some(new_err(401, -1, "Authorization failed"))]
    /\ pc' = [pc EXCEPT ![h] = "return"]
    /\ UNCHANGED <<db, tx, holder, poisoned, req, idx, results, failed, pre, events, engine, order, build>>

\* l.139-142: conn.transaction(), results = vec![], failed = None.  BEGIN
\* fails only on a connection that is inside a transaction; under the mutex
\* every Transaction is resolved or dropped before the next handler comes,
\* and no text of the model opens one, so the `?` of l.139 has no Err here.
Begin(h) ==
    /\ pc[h] = "auth"
    /\ ~AuthFails(h)
    /\ tx' = [tx EXCEPT ![req[h].db] = Some(db[req[h].db])]
    /\ results' = [results EXCEPT ![h] = <<>>]
    /\ failed' = [failed EXCEPT ![h] = None]
    /\ idx' = [idx EXCEPT ![h] = 0]
    /\ pc' = [pc EXCEPT ![h] = "loop"]
    /\ Log(h, Ev("begin", 0))
    /\ UNCHANGED <<db, holder, poisoned, req, response, pre, engine, order, build>>

\* LoopItem as it would be if results were inserted at the front
LoopItemPrepends(h) ==
    /\ pc[h] = "loop"
    /\ is_none(failed[h])
    /\ idx[h] < Len(req[h].transaction)
    /\ \E d \in {req[h].db} :
       \E b \in {loop_body(unwrap(tx[d]), req[h].transaction[idx[h] + 1], idx[h], dbconf[d])} :
          /\ tx' = [tx EXCEPT ![d] = Some(b.conn)]
          /\ results' = [results EXCEPT ![h] = b.push \o @]
          /\ failed' = [failed EXCEPT ![h] = b.fail]
          /\ idx' = [idx EXCEPT ![h] = IF b.next = "continue" THEN @ + 1 ELSE @]
          /\ pc' = [pc EXCEPT ![h] = IF b.next = "panic" THEN "unwind_process" ELSE "loop"]
          /\ Log(h, Ev("item", idx[h]))
          /\ engine' = [engine EXCEPT ![h] =
                 @ \o [j \in 1..Len(b.calls) |->
                          [k |-> idx[h], op |-> b.calls[j].op, sql |-> b.calls[j].sql]]]
          /\ db' = IF b.conn.ended THEN [db EXCEPT ![d] = Durable(b.conn)] ELSE db
    /\ UNCHANGED <<holder, poisoned, req, response, pre, order, build>>

\* l.144-205: one turn of the loop.  Once a statement has ended the
\* transaction the connection is in autocommit mode, and what the item did
\* is committed with it.  d is the database, b the outcome of the turn.
LoopItem(h) ==
    /\ pc[h] = "loop"
    /\ is_none(failed[h])
    /\ idx[h] < Len(req[h].transaction)
    /\ \E d \in {req[h].db} :
       \E b \in {loop_body(unwrap(tx[d]), req[h].transaction[idx[h] + 1], idx[h], dbconf[d])} :
          /\ tx' = [tx EXCEPT ![d] = Some(b.conn)]
          /\ results' = [results EXCEPT ![h] = @ \o b.push]
          /\ failed' = [failed EXCEPT ![h] = b.fail]
          /\ idx' = [idx EXCEPT ![h] = IF b.next = "continue" THEN @ + 1 ELSE @]
          /\ pc' = [pc EXCEPT ![h] = IF b.next = "panic" THEN "unwind_process" ELSE "loop"]
          /\ Log(h, Ev("item", idx[h]))
          /\ engine' = [engine EXCEPT ![h] =
                 @ \o [j \in 1..Len(b.calls) |->
                          [k |-> idx[h], op |-> b.calls[j].op, sql |-> b.calls[j].sql]]]
          /\ db' = IF b.conn.ended THEN [db EXCEPT ![d] = Durable(b.conn)] ELSE db
    /\ UNCHANGED <<holder, poisoned, req, response, pre, order, build>>

\* Rollback as it would be if the failure were reported with a 1-based index
RollbackOneBased(h) ==
    /\ pc[h] = "loop"
    /\ is_some(failed[h])
    /\ ~unwrap(tx[req[h].db]).ended
    /\ db' = [db EXCEPT ![req[h].db].changes = unwrap(tx[req[h].db]).changes]
    /\ tx' = [tx EXCEPT ![req[h].db] = None]
    /\ response' = [response EXCEPT ![h] =
                       Some(new_err(400, unwrap(failed[h])[1] + 1, unwrap(failed[h])[2]))]
    /\ pc' = [pc EXCEPT ![h] = "return"]
    /\ Log(h, Ev("rollback", 0))
    /\ UNCHANGED <<holder, poisoned, req, idx, results, failed, pre, engine, order, build>>

\* l.208-212: tx.rollback() is Ok, the failure response; the rows go back
\* to what was committed, the connection's counter stays
Rollback(h) ==
    /\ pc[h] = "loop"
    /\ is_some(failed[h])
    /\ ~unwrap(tx[req[h].db]).ended
    /\ db' = [db EXCEPT ![req[h].db].changes = unwrap(tx[req[h].db]).changes]
    /\ tx' = [tx EXCEPT ![req[h].db] = None]
    /\ response' = [response EXCEPT ![h] =
                       Some(new_err(400, unwrap(failed[h])[1], unwrap(failed[h])[2]))]
    /\ pc' = [pc EXCEPT ![h] = "return"]
    /\ Log(h, Ev("rollback", 0))
    /\ UNCHANGED <<holder, poisoned, req, idx, results, failed, pre, engine, order, build>>

\* l.209, l.243: tx.rollback() is Err, there is no transaction to roll
\* back; the `?` makes process return that Err with the Transaction gone,
\* and process(..).unwrap() in handler panics: no response is produced
RollbackFails(h) ==
    /\ pc[h] = "loop"
    /\ is_some(failed[h])
    /\ unwrap(tx[req[h].db]).ended
    /\ db' = [db EXCEPT ![req[h].db] = Durable(unwrap(tx[req[h].db]))]
    /\ tx' = [tx EXCEPT ![req[h].db] = None]
    /\ pc' = [pc EXCEPT ![h] = "unwind_handler"]
    /\ Log(h, Ev("rollback_err", 0))
    /\ UNCHANGED <<holder, poisoned, req, idx, results, failed, response, pre, engine, order, build>>

\* l.213-216: tx.commit() is Ok, the success response
Commit(h) ==
    /\ pc[h] = "loop"
    /\ is_none(failed[h])
    /\ idx[h] >= Len(req[h].transaction)
    /\ ~unwrap(tx[req[h].db]).ended
    /\ db' = [db EXCEPT ![req[h].db] = unwrap(tx[req[h].db])]
    /\ tx' = [tx EXCEPT ![req[h].db] = None]
    /\ response' = [response EXCEPT ![h] = Some(new_ok(results[h]))]
    /\ pc' = [pc EXCEPT ![h] = "return"]
    /\ Log(h, Ev("commit", 0))
    /\ UNCHANGED <<holder, poisoned, req, idx, results, failed, pre, engine, order, build>>

\* l.214, l.243: tx.commit() is Err, there is no transaction to commit;
\* process returns that Err and process(..).unwrap() in handler panics
CommitFails(h) ==
    /\ pc[h] = "loop"
    /\ is_none(failed[h])
    /\ idx[h] >= Len(req[h].transaction)
    /\ unwrap(tx[req[h].db]).ended
    /\ db' = [db EXCEPT ![req[h].db] = Durable(unwrap(tx[req[h].db]))]
    /\ tx' = [tx EXCEPT ![req[h].db] = None]
    /\ pc' = [pc EXCEPT ![h] = "unwind_handler"]
    /\ Log(h, Ev("commit_err", 0))
    /\ UNCHANGED <<holder, poisoned, req, idx, results, failed, response, pre, engine, order, build>>

\* l.243-244: process returned Ok, the response goes out and the guard drops
Return(h) ==
    /\ pc[h] = "return"
    /\ holder' = [holder EXCEPT ![req[h].db] = NoHolder]
    /\ pc' = [pc EXCEPT ![h] = "done"]
    /\ Log(h, Ev("unlock", 0))
    /\ UNCHANGED <<db, tx, poisoned, req, idx, results, failed, response, pre, engine, order, build>>

\* a panic inside process unwinds its frame: dropping the Transaction rolls
\* back, and does nothing on a connection in autocommit mode
UnwindProcess(h) ==
    /\ pc[h] = "unwind_process"
    /\ db' = IF unwrap(tx[req[h].db]).ended
             THEN [db EXCEPT ![req[h].db] = Durable(unwrap(tx[req[h].db]))]
             ELSE [db EXCEPT ![req[h].db].changes = unwrap(tx[req[h].db]).changes]
    /\ tx' = [tx EXCEPT ![req[h].db] = None]
    /\ pc' = [pc EXCEPT ![h] = "unwind_handler"]
    /\ Log(h, Ev(IF unwrap(tx[req[h].db]).ended THEN "drop" ELSE "drop_rollback", 0))
    /\ UNCHANGED <<holder, poisoned, req, idx, results, failed, response, pre, engine, order, build>>

\* the panic unwinds handler: dropping the MutexGuard while panicking
\* releases the mutex and poisons it; no response is produced
UnwindHandler(h) ==
    /\ pc[h] = "unwind_handler"
    /\ holder' = [holder EXCEPT ![req[h].db] = NoHolder]
    /\ poisoned' = [poisoned EXCEPT ![req[h].db] = TRUE]
    /\ pc' = [pc EXCEPT ![h] = "dead"]
    /\ Log(h, Ev("unlock_panic", 0))
    /\ UNCHANGED <<db, tx, req, idx, results, failed, response, pre, engine, order, build>>

\* what handler h does once it has its request, on a mutex that is sound
Serve(h) ==
    \/ Lock(h)
    \/ AuthReject(h)
    \/ Begin(h)
    \/ LoopItem(h)
    \/ Rollback(h)
    \/ RollbackFails(h)
    \/ Commit(h)
    \/ CommitFails(h)
    \/ Return(h)
    \/ UnwindProcess(h)
    \/ UnwindHandler(h)

\* one request is served: any database, any credentials, any sequence of
\* at most MaxItems items
ReceiveAny ==
    /\ pc["h1"] = "idle"
    /\ \E d \in DBs : \E c \in CredentialsFor(d) : \E n \in 0..MaxItems :
          \E t \in [1..n -> Items] : Receive("h1", Request(d, c, t))
Next == ReceiveAny \/ Serve("h1")
Spec == Init /\ [][Next]_vars

\* two requests are served concurrently
ReceiveConc == \E h \in Handlers : pc[h] = "idle" /\ \E r \in ConcRequests : Receive(h, r)
NextConc ==
    \/ ReceiveConc
    \/ \E h \in Handlers : Serve(h) \/ LockPoisoned(h)
SpecConc == Init /\ [][NextConc]_vars

\* ------------------------------------------------------------------ properties: helpers
Terminal(h) == pc[h] \in {"done", "dead"}
EvCount(h, e) == Cardinality({j \in 1..Len(events[h]) : events[h][j].ev = e})
Began(h) == EvCount(h, "begin") > 0
IsItemEv(e) == e.ev = "item"
ItemEvents(h) == SelectSeq(events[h], IsItemEv)
Trx(h) == req[h].transaction
Conf(h) == dbconf[req[h].db]

\* the shape check of l.145
Invalid(item) == is_some(item.query) = is_some(item.statement)

\* the table of the transaction after item `item` ran on `conn`
Effect(conn, item, conf) ==
    IF Invalid(item) THEN conn ELSE item_ret(conn, item, conf).conn

\* the table of the transaction before item k (1-based) of t, opened on `conn`
RECURSIVE RowsBefore(_, _, _, _)
RowsBefore(conn, t, k, conf) ==
    IF k <= 1 THEN conn
    ELSE Effect(RowsBefore(conn, t, k - 1, conf), t[k - 1], conf)

\* how item k (1-based) of h's request ends when it is run in its place:
\* "ok", "err" (an error value) or "panic"
Ending(h, k) ==
    IF Invalid(Trx(h)[k]) THEN "err"
    ELSE item_ret(RowsBefore(pre[h], Trx(h), k, Conf(h)), Trx(h)[k], Conf(h)).st

\* item k (1-based) of h's request was run
Ran(h, k) == \E j \in 1..Len(events[h]) : events[h][j] = Ev("item", k - 1)

\* ------------------------------------------------------------------ C1
\* C1: when item i of a request fails (an error or a panic) and its noFail
\* flag is false, then once the call has ended no item after i was run, the
\* transaction was rolled back and never committed, and the database holds
\* what it held before the call, the changes of the items before i undone.
C1_WholeBatchAbort ==
    \A h \in Handlers :
        \A k \in 1..Len(Trx(h)) :
            (/\ pc[h] \in {"return", "done", "dead"}
             /\ Ran(h, k)
             /\ ~Trx(h)[k].no_fail
             /\ Ending(h, k) # "ok")
            => /\ \A j \in (k + 1)..Len(Trx(h)) : ~Ran(h, j)
               /\ EvCount(h, "rollback") + EvCount(h, "drop_rollback") = 1
               /\ EvCount(h, "commit") = 0
               /\ is_none(tx[req[h].db])
               /\ db[req[h].db].rows = pre[h].rows

\* ------------------------------------------------------------------ C2
\* no item of h's request decides a whole-batch abort: each item either has
\* noFail set or ends well in its place
NoAbort(h) == \A k \in 1..Len(Trx(h)) : Trx(h)[k].no_fail \/ Ending(h, k) = "ok"
PassedAuth(h) ==
    /\ EvCount(h, "lock") = 1
    /\ ~(is_some(Conf(h).auth) /\ ~process_auth(req[h].credentials))

\* C2: when no item of a request decides a whole-batch abort, then once the
\* call has ended the transaction was committed and the database holds the
\* table obtained by applying the executions that succeeded, in input order.
C2_Commit ==
    \A h \in Handlers :
        (Terminal(h) /\ PassedAuth(h) /\ NoAbort(h))
        => /\ EvCount(h, "commit") = 1
           /\ db[req[h].db] = RowsBefore(pre[h], Trx(h), Len(Trx(h)) + 1, Conf(h))

\* ------------------------------------------------------------------ C3
\* C3: a request that passed the auth gate has, once the call has ended,
\* opened exactly one transaction, left none open, and reached exactly one of
\* commit with a success response and rollback with a failure response.
C3_OneTerminalDecision ==
    \A h \in Handlers :
        (Terminal(h) /\ PassedAuth(h))
        => /\ EvCount(h, "begin") = 1
           /\ is_none(tx[req[h].db])
           /\ is_some(response[h])
           /\ \/ /\ EvCount(h, "commit") = 1
                 /\ EvCount(h, "rollback") = 0
                 /\ unwrap(response[h]).success
                 /\ is_some(unwrap(response[h]).results)
              \/ /\ EvCount(h, "commit") = 0
                 /\ EvCount(h, "rollback") = 1
                 /\ ~unwrap(response[h]).success
                 /\ is_some(unwrap(response[h]).message)

\* ------------------------------------------------------------------ C4
\* C4: a request to a database that declares auth, with credentials that do
\* not verify, never opens a transaction and never runs an item; it is
\* answered 401 with errorCode -1 and the database is as it was.
C4_AuthGate ==
    \A h \in Handlers :
        (/\ pc[h] # "idle"
         /\ is_some(Conf(h).auth)
         /\ ~process_auth(req[h].credentials))
        => /\ pc[h] \in {"lock", "auth", "return", "done"}
           /\ EvCount(h, "begin") = 0
           /\ EvCount(h, "item") = 0
           /\ pc[h] \in {"auth", "return", "done"}
              => /\ is_none(tx[req[h].db])
                 /\ db[req[h].db].rows = pre[h].rows
           /\ pc[h] \in {"return", "done"}
              => response[h] = Some(new_err(401, -1, "Authorization failed"))

\* an unauthorized request with two items was answered
C4_Witness ==
    /\ pc["h1"] = "done"
    /\ is_some(Conf("h1").auth)
    /\ req["h1"].credentials = Some("bad")
    /\ Len(Trx("h1")) = 2
    /\ Trx("h1")[1].statement = Some("addv")
    /\ unwrap(response["h1"]).status = 401

\* ------------------------------------------------------------------ C5
\* C5: when an item with noFail set fails, a failed ResponseItem with the
\* error message stands at its position, the handler goes on in the loop with
\* the transaction still open on the table the items so far produced.
C5_NoFailContinues ==
    \A h \in Handlers :
        \A k \in 1..Len(Trx(h)) :
            (Ran(h, k) /\ Trx(h)[k].no_fail /\ Ending(h, k) # "ok")
            => /\ pc[h] \in {"loop", "return", "done"}
               /\ Len(results[h]) >= k
               /\ ~results[h][k].success
               /\ is_some(results[h][k].error)
               /\ (pc[h] = "loop" /\ is_none(failed[h]))
                  => tx[req[h].db] =
                        Some(RowsBefore(pre[h], Trx(h), idx[h] + 1, Conf(h)))

\* ------------------------------------------------------------------ C6
\* C6: a request all of whose items set noFail is answered, whatever fails,
\* with a success response that has one result per item.
C6_AllNoFail ==
    \A h \in Handlers :
        (/\ Terminal(h)
         /\ PassedAuth(h)
         /\ \A k \in 1..Len(Trx(h)) : Trx(h)[k].no_fail)
        => /\ is_some(response[h])
           /\ unwrap(response[h]).success
           /\ Len(unwrap(unwrap(response[h]).results)) = Len(Trx(h))

\* ------------------------------------------------------------------ C7
\* C7: the items are run in input order, none skipped and none twice, and in
\* a success response results[k] is what item k produced when it was run in
\* its place.
C7_ResultsMirrorInput ==
    \A h \in Handlers :
        /\ \A j \in 1..Len(ItemEvents(h)) : ItemEvents(h)[j].k = j - 1
        /\ (is_some(response[h]) /\ unwrap(response[h]).success)
           => LET rs == unwrap(unwrap(response[h]).results)
              IN /\ Len(rs) = Len(Trx(h))
                 /\ \A k \in 1..Len(rs) :
                       Some(rs[k]) =
                          loop_body(RowsBefore(pre[h], Trx(h), k, Conf(h)),
                                    Trx(h)[k], k - 1, Conf(h)).push

\* a success response whose first result is a validation failure under
\* noFail and whose second is an insert
C7_Witness ==
    /\ pc["h1"] = "done"
    /\ is_some(response["h1"])
    /\ unwrap(response["h1"]).success
    /\ Len(Trx("h1")) = 2
    /\ Invalid(Trx("h1")[1])
    /\ ~unwrap(unwrap(response["h1"]).results)[1].success
    /\ unwrap(unwrap(response["h1"]).results)[2].rows_updated = Some(1)

\* ------------------------------------------------------------------ C8
\* handler h holds the mutex of its database
Holding(h) == pc[h] \in {"auth", "loop", "return", "unwind_process", "unwind_handler"}
EvIndex(h, e) == CHOOSE j \in 1..Len(events[h]) : events[h][j].ev = e

\* C8: no two handlers hold the mutex of one database at a time; a
\* transaction is open on a database only while the one handler that holds
\* its mutex is inside process, and that handler took the mutex before it
\* opened the transaction; a mutex is held only by a handler serving that
\* database, so a request to another database never waits for it.
C8_Serialize ==
    /\ \A g, h \in Handlers :
          (Holding(g) /\ Holding(h) /\ req[g].db = req[h].db) => g = h
    /\ \A h \in Handlers : Holding(h) => holder[req[h].db] = h
    /\ \A d \in DBs :
          holder[d] # NoHolder => (Holding(holder[d]) /\ req[holder[d]].db = d)
    /\ \A d \in DBs :
          is_some(tx[d])
          => /\ holder[d] # NoHolder
             /\ pc[holder[d]] \in {"loop", "unwind_process"}
    /\ \A h \in Handlers :
          Began(h) => (EvCount(h, "lock") = 1 /\ EvIndex(h, "lock") < EvIndex(h, "begin"))

\* one handler waits for the mutex while the other has a transaction open on
\* the same database
C8_Witness ==
    /\ pc["h1"] = "loop"
    /\ pc["h2"] = "lock"
    /\ req["h1"].db = req["h2"].db
    /\ is_some(tx[req["h1"].db])

\* ------------------------------------------------------------------ C9
\* C9: a mutex that is free has no transaction open on its connection and
\* can be taken again: it is not poisoned.
C9_LockLeftUsable ==
    \A d \in DBs : holder[d] = NoHolder => (is_none(tx[d]) /\ ~poisoned[d])

\* ------------------------------------------------------------------ C10
\* C10: a request whose items were run ends with a structured response,
\* whatever error an item met.
C10_EveryErrorStructured ==
    \A h \in Handlers :
        /\ pc[h] \notin {"unwind_process", "unwind_handler"}
        /\ (Terminal(h) /\ Began(h)) => is_some(response[h])

\* ------------------------------------------------------------------ C11
\* the text of a well-shaped item
TextOf(item) == IF is_some(item.query) THEN unwrap(item.query) ELSE unwrap(item.statement)
\* the calls of item k (1-based) of h's request, by operation
CallsOf(h, k, ops) ==
    {j \in 1..Len(engine[h]) : engine[h][j].k = k - 1 /\ engine[h][j].op \in ops}
EngineOps == {"prepare", "step"}

\* C11: on a database in stored-only mode, an item whose text is not a
\* registered name ends in the resolution error, under its noFail flag, and
\* nothing is prepared or run for it; for an item whose text is a registered
\* name, what is prepared and run is the registered SQL.
C11_StoredOnly ==
    \A h \in Handlers : \A k \in 1..Len(Trx(h)) :
        (Ran(h, k) /\ ~Invalid(Trx(h)[k]) /\ Conf(h).use_only_stored_statements)
        => IF TextOf(Trx(h)[k]) \in DOMAIN stored_statements
           THEN \A j \in CallsOf(h, k, EngineOps) :
                   engine[h][j].sql = stored_statements[TextOf(Trx(h)[k])]
           ELSE /\ CallsOf(h, k, EngineOps) = {}
                /\ IF Trx(h)[k].no_fail
                   THEN /\ Len(results[h]) >= k
                        /\ results[h][k] = FailedItem("ResolutionError")
                        /\ is_none(failed[h]) => idx[h] >= k
                   ELSE failed[h] = Some(<<k - 1, "ResolutionError">>)

\* a stored-only database answered a request whose first item, raw SQL with
\* noFail, was refused and whose second, a registered name, inserted a row
C11_Witness ==
    /\ pc["h1"] = "done"
    /\ Conf("h1").use_only_stored_statements
    /\ Len(Trx("h1")) = 2
    /\ Trx("h1")[1].statement = Some(INS) /\ is_none(Trx("h1")[1].query)
    /\ Trx("h1")[2].statement = Some("addv") /\ is_none(Trx("h1")[2].query)
    /\ is_some(response["h1"]) /\ unwrap(response["h1"]).success
    /\ results["h1"][1] = FailedItem("ResolutionError")
    /\ results["h1"][2].rows_updated = Some(1)
    /\ CallsOf("h1", 1, EngineOps) = {}
    /\ CallsOf("h1", 2, {"step"}) # {}

\* ------------------------------------------------------------------ C12
\* the ResponseItem or the whole-batch failure of item k (1-based) of h's
\* request says the item failed
ItemFailed(h, k) ==
    IF Trx(h)[k].no_fail
    THEN Len(results[h]) >= k /\ ~results[h][k].success /\ is_some(results[h][k].error)
    ELSE is_some(failed[h]) /\ unwrap(failed[h])[1] = k - 1

\* C12: an item that carries both values and valuesBatch, query or
\* statement, fails and nothing is prepared or run for it.
C12_BothParamsRejected ==
    \A h \in Handlers : \A k \in 1..Len(Trx(h)) :
        (/\ Ran(h, k)
         /\ ~Invalid(Trx(h)[k])
         /\ is_some(Trx(h)[k].values) /\ is_some(Trx(h)[k].values_batch))
        => (CallsOf(h, k, EngineOps) = {} /\ ItemFailed(h, k))

\* ------------------------------------------------------------------ C13
ShapeMsg == "exactly one of 'query' and 'statement' must be provided"

\* C13: an item with neither or both of query and statement is a
\* validation failure: no text is resolved and nothing is prepared or run
\* for it; with noFail it is recorded as a failed ResponseItem and the loop
\* goes on, without noFail the request is aborted with the item's index.
C13_ShapeValidation ==
    \A h \in Handlers : \A k \in 1..Len(Trx(h)) :
        (Ran(h, k) /\ Invalid(Trx(h)[k]))
        => /\ CallsOf(h, k, {"resolve"} \cup EngineOps) = {}
           /\ IF Trx(h)[k].no_fail
              THEN /\ Len(results[h]) >= k
                   /\ results[h][k] = FailedItem(ShapeMsg)
                   /\ idx[h] >= k
              ELSE /\ failed[h] = Some(<<k - 1, ShapeMsg>>)
                   /\ Len(results[h]) = k - 1
                   /\ is_some(response[h])
                      => /\ unwrap(response[h]) = new_err(400, k - 1, ShapeMsg)
                         /\ db[req[h].db].rows = pre[h].rows

\* an item with both texts and noFail was recorded as failed and the item
\* after it, with neither text, aborted the request with index 1; the row of
\* the table is still there
C13_Witness ==
    /\ pc["h1"] = "done"
    /\ Trx("h1") = <<Item(Some(SEL), Some(DEL), None, None, TRUE),
                     Item(None, None, None, None, FALSE)>>
    /\ response["h1"] = Some(new_err(400, 1, ShapeMsg))
    /\ results["h1"] = <<FailedItem(ShapeMsg)>>
    /\ engine["h1"] = <<>>
    /\ db[req["h1"].db].rows = {Integer(1)}

\* ------------------------------------------------------------------ C14
\* the item is a statement with valuesBatch and without values
IsBatch(item) ==
    /\ ~Invalid(item) /\ is_some(item.statement)
    /\ is_none(item.values) /\ is_some(item.values_batch)

\* the table before execution j of the statement `sql` over `batch`, the
\* executions before it having run in order from `conn`
RECURSIVE TableAt(_, _, _, _)
TableAt(conn, sql, batch, j) ==
    IF j <= 1 THEN conn
    ELSE Step(TableAt(conn, sql, batch, j - 1), sql,
              BoundValue(calc_named_params(batch[j - 1]))).conn

\* C14: for a valuesBatch statement item reported as a success, the
\* statement was prepared once and then run once per parameter object, and
\* rowsUpdatedBatch has one entry per object, entry j being the rows
\* affected by run j, the runs taken in input order.
C14_BatchCount ==
    \A h \in Handlers : \A k \in 1..Len(Trx(h)) :
        (/\ Ran(h, k)
         /\ IsBatch(Trx(h)[k])
         /\ Len(results[h]) >= k /\ results[h][k].success)
        => LET batch == unwrap(Trx(h)[k].values_batch)
               sql == check_stored_stmt(unwrap(Trx(h)[k].statement), stored_statements,
                                        Conf(h).use_only_stored_statements).sql
               before == RowsBefore(pre[h], Trx(h), k, Conf(h))
               counts == results[h][k].rows_updated_batch
           IN /\ Cardinality(CallsOf(h, k, {"prepare"})) = 1
              /\ Cardinality(CallsOf(h, k, {"step"})) = Len(batch)
              /\ \A p \in CallsOf(h, k, {"prepare"}) : \A e \in CallsOf(h, k, {"step"}) :
                     p < e
              /\ is_some(counts)
              /\ Len(unwrap(counts)) = Len(batch)
              /\ \A j \in 1..Len(batch) :
                     unwrap(counts)[j] =
                        Step(TableAt(before, sql, batch, j), sql,
                             BoundValue(calc_named_params(batch[j]))).conn.changes

\* a batch of MaxBatch different values was inserted into the empty table
C14_Witness ==
    /\ pc["h1"] = "done"
    /\ Trx("h1") = <<Item(None, Some(INS), None, Some(BatchAsc), FALSE)>>
    /\ is_some(response["h1"]) /\ unwrap(response["h1"]).success
    /\ Len(unwrap(results["h1"][1].rows_updated_batch)) = MaxBatch
    /\ Cardinality(CallsOf("h1", 1, {"step"})) = MaxBatch
    /\ Cardinality(db[req["h1"].db].rows) = MaxBatch

\* ------------------------------------------------------------------ C15
\* the item carries a parameter object with a member that is no scalar
HasNested(item) ==
    /\ is_some(item.values)
    /\ unwrap(item.values).kind = "object"
    /\ unwrap(item.values).val.kind \in {"array", "object"}

\* C15: an item whose parameter object has a nested array or object as a
\* value fails, and its statement is not run.
C15_NestedRejected ==
    \A h \in Handlers : \A k \in 1..Len(Trx(h)) :
        (Ran(h, k) /\ ~Invalid(Trx(h)[k]) /\ HasNested(Trx(h)[k]))
        => (CallsOf(h, k, {"step"}) = {} /\ ItemFailed(h, k))

\* ------------------------------------------------------------------ C16
\* the item is the statement INS with the parameter object {"v": x}, x a
\* scalar
InsertsScalar(item) ==
    /\ ~Invalid(item)
    /\ item.statement = Some(INS)
    /\ is_some(item.values) /\ is_none(item.values_batch)
    /\ unwrap(item.values).kind = "object"
    /\ unwrap(item.values).key = "v"
    /\ unwrap(item.values).val.kind \in {"null", "number", "string"}

\* C16: a scalar JSON value written through a named parameter and read
\* back by a query comes back equal: when an insert of {"v": x} succeeded
\* and the next item, the query SEL, succeeded, one row of its result set
\* has v = x.
C16_RoundTrip ==
    \A h \in Handlers : \A k \in 2..Len(Trx(h)) :
        (/\ Len(results[h]) >= k
         /\ InsertsScalar(Trx(h)[k - 1]) /\ results[h][k - 1].success
         /\ ~Invalid(Trx(h)[k]) /\ Trx(h)[k].query = Some(SEL)
         /\ results[h][k].success)
        => LET rs == unwrap(results[h][k].result_set)
           IN \E j \in 1..Len(rs) : rs[j]["v"] = unwrap(Trx(h)[k - 1].values).val

\* ------------------------------------------------------------------ C17
\* C17: the errorCode of a whole-batch failure that item processing produced
\* is the 0-based index of the first item that failed without noFail: it is
\* an index of the request, that item failed with noFail unset, and every
\* item before it succeeded or failed with noFail set.  The errorCode -1 is
\* that of the auth gate only.
C17_ErrorCode ==
    \A h \in Handlers :
        (is_some(response[h]) /\ ~unwrap(response[h]).success)
        => LET c == unwrap(unwrap(response[h]).error_code)
           IN IF Began(h)
              THEN /\ c \in 0..(Len(Trx(h)) - 1)
                   /\ ~Trx(h)[c + 1].no_fail
                   /\ Ending(h, c + 1) = "err"
                   /\ \A k \in 1..c :
                         \/ Ending(h, k) = "ok"
                         \/ Ending(h, k) = "err" /\ Trx(h)[k].no_fail
              ELSE /\ c = -1
                   /\ is_some(Conf(h).auth) /\ ~process_auth(req[h].credentials)

\* a request was aborted with errorCode 1: its first item failed with
\* noFail, its second without
C17_Witness ==
    /\ pc["h1"] = "done"
    /\ Len(Trx("h1")) = 2
    /\ is_some(response["h1"])
    /\ unwrap(response["h1"]).error_code = Some(1)
    /\ Ending("h1", 1) = "err" /\ Trx("h1")[1].no_fail
    /\ Ending("h1", 2) = "err" /\ ~Trx("h1")[2].no_fail

\* ------------------------------------------------------------------ C18
\* C18: the fields of a ResponseItem follow from the kind of its item and
\* its outcome: a successful query has resultSet (an empty one included)
\* and no count; a successful statement without valuesBatch has rowsUpdated
\* only; a successful statement with valuesBatch has rowsUpdatedBatch only;
\* a failed item has error and none of the three; a successful item has no
\* error.
C18_ItemShape ==
    \A h \in Handlers : \A k \in 1..Len(results[h]) :
        LET item == Trx(h)[k]
            r == results[h][k]
            carried == <<is_some(r.result_set), is_some(r.rows_updated),
                         is_some(r.rows_updated_batch)>>
        IN IF ~r.success
           THEN is_some(r.error) /\ carried = <<FALSE, FALSE, FALSE>>
           ELSE /\ is_none(r.error)
                /\ ~Invalid(item)
                /\ carried = IF is_some(item.query) THEN <<TRUE, FALSE, FALSE>>
                             ELSE IF is_none(item.values_batch)
                             THEN <<FALSE, TRUE, FALSE>>
                             ELSE <<FALSE, FALSE, TRUE>>

\* a request of a query on the empty table, which succeeded with the empty
\* result set, and a statement that failed with noFail was answered
C18_Witness ==
    /\ pc["h1"] = "done"
    /\ is_some(response["h1"]) /\ unwrap(response["h1"]).success
    /\ Len(results["h1"]) = 2
    /\ results["h1"][1] = ResponseItem(TRUE, None, Some(<<>>), None, None)
    /\ Trx("h1")[1].query = Some(SEL)
    /\ ~results["h1"][2].success /\ is_some(Trx("h1")[2].statement)
    /\ CallsOf("h1", 2, {"step"}) # {}

\* ------------------------------------------------------------------ C19
\* the connection after the first k items of t, run in order from `conn`,
\* when only the items that `res` reports as a success act on it
RECURSIVE SuccessOnly(_, _, _, _, _)
SuccessOnly(conn, t, res, k, conf) ==
    IF k = 0 THEN conn
    ELSE LET b == SuccessOnly(conn, t, res, k - 1, conf)
         IN IF res[k].success THEN Effect(b, t[k], conf) ELSE b

\* C19: what a committed request changed is what its items reported as a
\* success changed, in order; an item reported as failed changed nothing.
C19_CommittedAreSuccesses ==
    \A h \in Handlers :
        (pc[h] = "return" /\ is_some(response[h]) /\ unwrap(response[h]).success)
        => db[req[h].db].rows =
              SuccessOnly(pre[h], Trx(h), results[h], Len(Trx(h)), Conf(h)).rows

\* ------------------------------------------------------------------ C20
\* the connection after its Transaction, opened on `committed` and now at
\* `conn`, was rolled back or dropped: the rows go back and the counter
\* stays, and on a connection in autocommit mode nothing is undone
Abandoned(committed, conn) ==
    IF conn.ended THEN Durable(conn) ELSE Conn(committed.rows, conn.changes)

\* process run alone from item i (1-based) on: `conn` the connection inside
\* the transaction, `committed` the connection as the transaction found it,
\* `res` the results so far.  The outcome is the connection afterwards, the
\* response or None, and whether the call panicked.
RECURSIVE RunItems(_, _, _, _, _, _)
RunItems(committed, conn, t, i, res, conf) ==
    IF i > Len(t)
    THEN IF conn.ended
         THEN [db |-> Durable(conn), response |-> None, panic |-> TRUE]       \* l.214
         ELSE [db |-> conn, response |-> Some(new_ok(res)), panic |-> FALSE]
    ELSE LET b == loop_body(conn, t[i], i - 1, conf)
         IN CASE b.next = "panic" ->
                   [db |-> Abandoned(committed, b.conn), response |-> None,
                    panic |-> TRUE]
              [] b.next = "break" ->
                   IF b.conn.ended
                   THEN [db |-> Durable(b.conn), response |-> None,
                         panic |-> TRUE]                                      \* l.209
                   ELSE [db |-> Abandoned(committed, b.conn),
                         response |-> Some(new_err(400, unwrap(b.fail)[1],
                                                   unwrap(b.fail)[2])),
                         panic |-> FALSE]
              [] b.next = "continue" ->
                   RunItems(committed, b.conn, t, i + 1, res \o b.push, conf)

\* one request served alone on the connection `conn`
ServeAlone(conn, r) ==
    IF is_some(dbconf[r.db].auth) /\ ~process_auth(r.credentials)
    THEN [db |-> conn, response |-> Some(new_err(401, -1, "Authorization failed")),
          panic |-> FALSE]
    ELSE RunItems(conn, conn, r.transaction, 1, <<>>, dbconf[r.db])

\* the connection of database d when its first request arrived
FirstConn(d) == IF order[d] = <<>> THEN db[d] ELSE pre[order[d][1]]

\* database d after the first n handlers of order[d] were served one after
\* another: the connection, whether the mutex is poisoned, and the response
\* of each
RECURSIVE SerialAt(_, _)
SerialAt(d, n) ==
    IF n = 0
    THEN [db |-> FirstConn(d), poisoned |-> FALSE, resp |-> <<>>]
    ELSE LET s == SerialAt(d, n - 1)
             o == ServeAlone(s.db, req[order[d][n]])
         IN IF s.poisoned
            THEN [s EXCEPT !.resp = Append(@, None)]
            ELSE [db |-> o.db, poisoned |-> o.panic, resp |-> Append(s.resp, o.response)]

\* the connection of database d after those of the first n handlers of
\* order[d] that committed were served one after another, the others left
\* out: what the requests that did not commit did has no part in it
RECURSIVE CommittedAt(_, _)
CommittedAt(d, n) ==
    IF n = 0 THEN FirstConn(d)
    ELSE LET c == CommittedAt(d, n - 1)
         IN IF EvCount(order[d][n], "commit") = 1
            THEN ServeAlone(c, req[order[d][n]]).db
            ELSE c

\* the handler is between taking the mutex and resolving its transaction
InProgress(h) == pc[h] \in {"auth", "loop", "unwind_process"}

\* the requests to one database are served as if one after another in the
\* order of their lock() calls: every handler but the last of that order has
\* ended, each one found the connection the handlers before it left, each
\* response is that of the serial run, and what is committed is that of the
\* serial run of the handlers that resolved their transaction
SerialOrder ==
    \A d \in DBs :
        LET n == Len(order[d])
            resolved == IF n > 0 /\ InProgress(order[d][n]) THEN n - 1 ELSE n
        IN /\ \A j \in 1..(n - 1) : Terminal(order[d][j])
           /\ \A j \in 1..n :
                 LET g == order[d][j]
                 IN /\ req[g].db = d
                    /\ EvCount(g, "lock") > 0 => pre[g] = SerialAt(d, j - 1).db
                    /\ ~InProgress(g) => response[g] = SerialAt(d, j).resp[j]
                    /\ poisoned[d] /\ Terminal(g) /\ j = n => SerialAt(d, n).poisoned
           /\ (is_none(tx[d]) \/ ~unwrap(tx[d]).ended)
              => db[d] = SerialAt(d, resolved).db

\* the response of a request is what it would be had the requests before it
\* that did not commit never been made
NothingRolledBackObserved ==
    \A d \in DBs : \A j \in 1..Len(order[d]) :
        LET g == order[d][j]
        IN (pc[g] \in {"return", "done"})
           => response[g] = ServeAlone(CommittedAt(d, j - 1), req[g]).response

\* C20: concurrent requests to one database are serializable: the committed
\* state and every response equal those of serving the requests one after
\* another in the order of their lock() calls, and no response shows what a
\* request that was rolled back did.
C20_Serializable == SerialOrder /\ NothingRolledBackObserved

====
